---- MODULE Spec2Model ----
(***************************************************************************)
(* Model of workspaces/src/result.rs: the execution-result aggregation and *)
(* typed-decoding layer.  A FinalExecutionOutcomeView delivered by the RPC *)
(* layer is turned into an ExecutionFinalResult (from_view), classified    *)
(* into ExecutionSuccess / ExecutionFailure (into_result) and decoded      *)
(* (json / borsh / raw_bytes).                                             *)
(***************************************************************************)
EXTENDS Integers, Sequences, FiniteSets, TLC

VARIABLES view, final, result, oret, ret, pc

vars == <<view, final, result, oret, ret, pc>>

(***************************************************************************)
(* Bounds of the model.                                                    *)
(***************************************************************************)
MaxReceipts == 2        \* receipts per view
MaxLen == 3             \* bytes per success payload

(***************************************************************************)
(* Values shared by the whole module.                                      *)
(***************************************************************************)
NoValue == [tag |-> "None"]
Panic == [tag |-> "Panic"]

Ok(v) == [tag |-> "Ok", val |-> v]
Err(e) == [tag |-> "Err", err |-> e]

\* Rust's `x?` on a Result: an Err returns early (converted by From), an Ok
\* continues with the contained value; a panic unwinds through it.
IsOk(r) == r.tag = "Ok"
IsErr(r) == r.tag = "Err"

(***************************************************************************)
(* crate::error: an Error has a kind and a representation.                 *)
(***************************************************************************)
Custom(kind, e) == [kind |-> kind, repr |-> "Custom", error |-> e]
Message(kind, msg) == [kind |-> kind, repr |-> "Message", error |-> msg]
Detailed(kind, failure) == [kind |-> kind, repr |-> "Detailed", error |-> failure]

\* impl From<ExecutionFailure> for Error, applied by `?` in json/borsh/raw_bytes
ErrorFromExecutionFailure(failure) == Detailed("Execution", failure)

EmptyValueMsg == "the function call returned an empty value, which cannot be parsed as JSON"
PendingMsg == "Execution pending or unknown"

(***************************************************************************)
(* Gas = u64, kept at its width as four 16-bit limbs, least significant    *)
(* first.                                                                  *)
(***************************************************************************)
LimbBase == 2^16
GasZero == <<0, 0, 0, 0>>
GasOne == <<1, 0, 0, 0>>
GasHalf == <<0, 0, 0, 32768>>                   \* 2^63
GasMax == <<65535, 65535, 65535, 65535>>        \* u64::MAX

\* u64 `+`: the wrapped sum and whether the addition overflowed
AddU64(a, b) ==
    LET s1 == a[1] + b[1]
        s2 == a[2] + b[2] + (s1 \div LimbBase)
        s3 == a[3] + b[3] + (s2 \div LimbBase)
        s4 == a[4] + b[4] + (s3 \div LimbBase)
    IN [val |-> <<s1 % LimbBase, s2 % LimbBase, s3 % LimbBase, s4 % LimbBase>>,
        overflow |-> s4 \div LimbBase > 0]

\* Iterator::sum::<u64>(): a left fold of `+` starting from 0
RECURSIVE SumU64(_, _, _)
SumU64(gs, i, acc) ==
    IF i > Len(gs) THEN acc
    ELSE LET s == AddU64(acc.val, gs[i])
         IN SumU64(gs, i + 1, [val |-> s.val, overflow |-> acc.overflow \/ s.overflow])

(***************************************************************************)
(* base64::engine::general_purpose::STANDARD.  A symbol is its index in    *)
(* the alphabet (0..63); Pad is '='.                                       *)
(***************************************************************************)
Pad == 64

\* the encoding of STANDARD_NO_PAD
RECURSIVE Base64EncodeNoPad(_)
Base64EncodeNoPad(b) ==
    IF Len(b) = 0 THEN <<>>
    ELSE IF Len(b) = 1 THEN
        <<b[1] \div 4, (b[1] % 4) * 16>>
    ELSE IF Len(b) = 2 THEN
        <<b[1] \div 4, (b[1] % 4) * 16 + (b[2] \div 16), (b[2] % 16) * 4>>
    ELSE
        <<b[1] \div 4, (b[1] % 4) * 16 + (b[2] \div 16),
          (b[2] % 16) * 4 + (b[3] \div 64), b[3] % 64>>
        \o Base64EncodeNoPad(SubSeq(b, 4, Len(b)))

RECURSIVE Base64Encode(_)
Base64Encode(b) ==
    IF Len(b) = 0 THEN <<>>
    ELSE IF Len(b) = 1 THEN
        <<b[1] \div 4, (b[1] % 4) * 16, Pad, Pad>>
    ELSE IF Len(b) = 2 THEN
        <<b[1] \div 4, (b[1] % 4) * 16 + (b[2] \div 16), (b[2] % 16) * 4, Pad>>
    ELSE
        <<b[1] \div 4, (b[1] % 4) * 16 + (b[2] \div 16),
          (b[2] % 16) * 4 + (b[3] \div 64), b[3] % 64>>
        \o Base64Encode(SubSeq(b, 4, Len(b)))

RECURSIVE Base64Decode(_)
Base64Decode(s) ==
    IF Len(s) = 0 THEN Ok(<<>>)
    ELSE IF Len(s) < 4 THEN Err("InvalidPadding")
    ELSE LET c1 == s[1]
             c2 == s[2]
             c3 == s[3]
             c4 == s[4]
             b1 == c1 * 4 + (c2 \div 16)
             b2 == (c2 % 16) * 16 + (c3 \div 4)
             b3 == (c3 % 4) * 64 + c4
         IN IF c1 = Pad \/ c2 = Pad THEN Err("InvalidByte")
            ELSE IF Len(s) > 4 THEN
                IF c3 = Pad \/ c4 = Pad THEN Err("InvalidByte")
                ELSE LET rest == Base64Decode(SubSeq(s, 5, Len(s)))
                     IN IF IsOk(rest) THEN Ok(<<b1, b2, b3>> \o rest.val) ELSE rest
            ELSE IF c3 = Pad THEN
                IF c4 # Pad THEN Err("InvalidByte")
                ELSE IF c2 % 16 # 0 THEN Err("InvalidLastSymbol")
                ELSE Ok(<<b1>>)
            ELSE IF c4 = Pad THEN
                IF c3 % 4 # 0 THEN Err("InvalidLastSymbol")
                ELSE Ok(<<b1, b2>>)
            ELSE Ok(<<b1, b2, b3>>)

(***************************************************************************)
(* serde_json::from_slice::<T> and BorshDeserialize::try_from_slice for    *)
(* the caller-chosen T.  The model takes T = u64 for JSON (a decimal       *)
(* literal) and T = u8 for borsh (exactly one byte).                       *)
(***************************************************************************)
IsDigit(b) == b \in 48..57

RECURSIVE DecimalValue(_, _, _)
DecimalValue(buf, i, acc) ==
    IF i > Len(buf) THEN acc
    ELSE DecimalValue(buf, i + 1, acc * 10 + (buf[i] - 48))

serde_json_from_slice(buf) ==
    IF Len(buf) = 0 THEN Err("EOF while parsing a value")
    ELSE IF ~IsDigit(buf[1]) THEN Err("expected value")
    ELSE IF \E i \in 2..Len(buf) : ~IsDigit(buf[i]) THEN Err("trailing characters")
    ELSE IF buf[1] = 48 /\ Len(buf) > 1 THEN Err("invalid number")
    ELSE Ok(DecimalValue(buf, 1, 0))

borsh_try_from_slice(buf) ==
    IF Len(buf) = 0 THEN Err("Unexpected length of input")
    ELSE IF Len(buf) > 1 THEN Err("Not all bytes read")
    ELSE Ok(buf[1])

(***************************************************************************)
(* Value: the base64 text of a success payload.                            *)
(***************************************************************************)
Value_from_string(value) == [repr |-> value]

Value_raw_bytes(v) ==
    LET d == Base64Decode(v.repr)
    IN IF IsOk(d) THEN d ELSE Err(Custom("DataConversion", d.err))

Value_json(v) ==
    LET buf == Value_raw_bytes(v)
    IN IF IsErr(buf) THEN buf
       ELSE LET p == serde_json_from_slice(buf.val)
            IN IF IsOk(p) THEN p ELSE Err(Custom("DataConversion", p.err))

Value_borsh(v) ==
    LET buf == Value_raw_bytes(v)
    IN IF IsErr(buf) THEN buf
       ELSE LET p == borsh_try_from_slice(buf.val)
            IN IF IsOk(p) THEN p ELSE Err(Custom("DataConversion", p.err))

(***************************************************************************)
(* Statuses of near_primitives::views.                                     *)
(***************************************************************************)
SuccessValue(bytes) == [tag |-> "SuccessValue", value |-> bytes]
SuccessReceiptId(hash) == [tag |-> "SuccessReceiptId", hash |-> hash]
Failure(e) == [tag |-> "Failure", err |-> e]
Unknown == [tag |-> "Unknown"]
NotStarted == [tag |-> "NotStarted"]
Started == [tag |-> "Started"]

\* crate::types::CryptoHash(h.0): rewraps the bytes of a near hash
CryptoHash(bytes) == <<bytes>>

(***************************************************************************)
(* ExecutionOutcome                                                        *)
(***************************************************************************)
\* impl From<ExecutionOutcomeWithIdView> for ExecutionOutcome
ExecutionOutcome_from(v) ==
    [transaction_hash |-> CryptoHash(v.id[1]),
     block_hash |-> CryptoHash(v.block_hash[1]),
     logs |-> v.outcome.logs,
     receipt_ids |-> [i \in DOMAIN v.outcome.receipt_ids |->
                         CryptoHash(v.outcome.receipt_ids[i][1])],
     gas_burnt |-> v.outcome.gas_burnt,
     tokens_burnt |-> v.outcome.tokens_burnt,
     executor_id |-> v.outcome.executor_id,
     status |-> v.outcome.status]

ExecutionOutcome_is_success(o) ==
    o.status.tag \in {"SuccessValue", "SuccessReceiptId"}

\* is_failure() matching the Failure status only
is_failure_with_error_only(o) ==
    o.status.tag = "Failure"

ExecutionOutcome_is_failure(o) ==
    o.status.tag \in {"Failure", "Unknown"}

\* into_result() reading a pending outcome as a success without a value
into_result_unknown_as_empty(o) ==
    CASE o.status.tag = "SuccessValue" ->
            Ok([tag |-> "Value",
                value |-> Value_from_string(Base64Encode(o.status.value))])
      [] o.status.tag = "SuccessReceiptId" ->
            Ok([tag |-> "ReceiptId", hash |-> CryptoHash(o.status.hash[1])])
      [] o.status.tag = "Failure" -> Err(Custom("Execution", o.status.err))
      [] o.status.tag = "Unknown" ->
            Ok([tag |-> "Value", value |-> Value_from_string(<<>>)])

ExecutionOutcome_into_result(o) ==
    CASE o.status.tag = "SuccessValue" ->
            Ok([tag |-> "Value",
                value |-> Value_from_string(Base64Encode(o.status.value))])
      [] o.status.tag = "SuccessReceiptId" ->
            Ok([tag |-> "ReceiptId", hash |-> CryptoHash(o.status.hash[1])])
      [] o.status.tag = "Failure" -> Err(Custom("Execution", o.status.err))
      [] o.status.tag = "Unknown" -> Err(Message("Execution", PendingMsg))

(***************************************************************************)
(* ExecutionDetails: the transaction outcome and its receipt outcomes.     *)
(***************************************************************************)
ExecutionDetails_outcome(d) == d.transaction

ExecutionDetails_receipt_outcomes(d) == d.receipts

\* outcomes() with the transaction outcome pushed after the receipts
outcomes_transaction_last(d) ==
    ExecutionDetails_receipt_outcomes(d) \o <<d.transaction>>

ExecutionDetails_outcomes(d) ==
    <<d.transaction>> \o ExecutionDetails_receipt_outcomes(d)

ExecutionDetails_receipt_failures(d) ==
    LET matches(receipt) == receipt.status.tag = "Failure"
    IN SelectSeq(d.receipts, matches)

ExecutionDetails_failures(d) ==
    (IF d.transaction.status.tag = "Failure" THEN <<d.transaction>> ELSE <<>>)
    \o ExecutionDetails_receipt_failures(d)

RECURSIVE FlatMapLogs(_, _)
FlatMapLogs(outcomes, i) ==
    IF i > Len(outcomes) THEN <<>>
    ELSE outcomes[i].logs \o FlatMapLogs(outcomes, i + 1)

\* logs() flattening the receipt outcomes only
logs_receipts_only(d) == FlatMapLogs(ExecutionDetails_receipt_outcomes(d), 1)

ExecutionDetails_logs(d) == FlatMapLogs(ExecutionDetails_outcomes(d), 1)

(***************************************************************************)
(* ExecutionFinalResult                                                    *)
(***************************************************************************)
\* overflow_checks: whether the build panics on integer overflow (debug)
\* or wraps (release)
from_view(v, overflow_checks) ==
    LET receipts_gas == SumU64([i \in DOMAIN v.receipts_outcome |->
                                   v.receipts_outcome[i].outcome.gas_burnt],
                               1, [val |-> GasZero, overflow |-> FALSE])
        total == AddU64(v.transaction_outcome.outcome.gas_burnt, receipts_gas.val)
    IN IF overflow_checks /\ (receipts_gas.overflow \/ total.overflow) THEN Panic
       ELSE [total_gas_burnt |-> total.val,
             status |-> v.status,
             details |-> [transaction |-> ExecutionOutcome_from(v.transaction_outcome),
                          receipts |-> [i \in DOMAIN v.receipts_outcome |->
                                           ExecutionOutcome_from(v.receipts_outcome[i])]]]

\* into_result deciding on the outcomes instead of the top-level status
into_result_by_outcomes(self) ==
    IF self.status.tag = "SuccessValue"
       /\ \A i \in DOMAIN self.details.receipts :
             self.details.receipts[i].status.tag # "Failure"
    THEN Ok([total_gas_burnt |-> self.total_gas_burnt,
             value |-> Value_from_string(Base64Encode(self.status.value)),
             details |-> self.details])
    ELSE IF self.status.tag \in {"SuccessValue", "Failure"}
    THEN Err([total_gas_burnt |-> self.total_gas_burnt,
              value |-> IF self.status.tag = "Failure" THEN self.status.err
                        ELSE "FunctionCallError",
              details |-> self.details])
    ELSE Panic

\* into_result keeping only the failed outcomes in a failure
into_result_failures_only(self) ==
    CASE self.status.tag = "SuccessValue" ->
            Ok([total_gas_burnt |-> self.total_gas_burnt,
                value |-> Value_from_string(Base64Encode(self.status.value)),
                details |-> self.details])
      [] self.status.tag = "Failure" ->
            Err([total_gas_burnt |-> self.total_gas_burnt,
                 value |-> self.status.err,
                 details |-> [transaction |-> self.details.transaction,
                              receipts |-> ExecutionDetails_receipt_failures(self.details)]])
      [] OTHER -> Panic

\* into_result handing a failure on as a success with an empty value
into_result_failure_as_empty(self) ==
    CASE self.status.tag \in {"SuccessValue", "Failure"} ->
            Ok([total_gas_burnt |-> self.total_gas_burnt,
                value |-> Value_from_string(
                              IF self.status.tag = "SuccessValue"
                              THEN Base64Encode(self.status.value) ELSE <<>>),
                details |-> self.details])
      [] OTHER -> Panic

\* into_result reporting the error of the first failed outcome
into_result_first_failure(self) ==
    CASE self.status.tag = "SuccessValue" ->
            Ok([total_gas_burnt |-> self.total_gas_burnt,
                value |-> Value_from_string(Base64Encode(self.status.value)),
                details |-> self.details])
      [] self.status.tag = "Failure" ->
            Err([total_gas_burnt |-> self.total_gas_burnt,
                 value |-> IF ExecutionDetails_failures(self.details) # <<>>
                           THEN ExecutionDetails_failures(self.details)[1].status.err
                           ELSE self.status.err,
                 details |-> self.details])
      [] OTHER -> Panic

ExecutionFinalResult_into_result(self) ==
    CASE self.status.tag = "SuccessValue" ->
            Ok([total_gas_burnt |-> self.total_gas_burnt,
                value |-> Value_from_string(Base64Encode(self.status.value)),
                details |-> self.details])
      [] self.status.tag = "Failure" ->
            Err([total_gas_burnt |-> self.total_gas_burnt,
                 value |-> self.status.err,
                 details |-> self.details])
      [] OTHER -> Panic       \* unreachable!()

ExecutionFinalResult_is_success(self) == self.status.tag = "SuccessValue"

ExecutionFinalResult_is_failure(self) == self.status.tag = "Failure"

(***************************************************************************)
(* ExecutionSuccess = ExecutionResult<Value>                               *)
(***************************************************************************)
ExecutionSuccess_json(self) == Value_json(self.value)

ExecutionSuccess_borsh(self) == Value_borsh(self.value)

ExecutionSuccess_raw_bytes(self) == Value_raw_bytes(self.value)

\* ExecutionFinalResult::{json, borsh, raw_bytes}: classify, then decode
ExecutionFinalResult_json(self) ==
    LET r == ExecutionFinalResult_into_result(self)
    IN IF r = Panic THEN Panic
       ELSE IF IsErr(r) THEN Err(ErrorFromExecutionFailure(r.err))
       ELSE LET val == r.val
                j == ExecutionSuccess_json(val)
            IN IF IsErr(j) /\ j.err.kind = "DataConversion" /\ Len(val.value.repr) = 0
               THEN Err(Custom("DataConversion", EmptyValueMsg))
               ELSE j

ExecutionFinalResult_borsh(self) ==
    LET r == ExecutionFinalResult_into_result(self)
    IN IF r = Panic THEN Panic
       ELSE IF IsErr(r) THEN Err(ErrorFromExecutionFailure(r.err))
       ELSE ExecutionSuccess_borsh(r.val)

ExecutionFinalResult_raw_bytes(self) ==
    LET r == ExecutionFinalResult_into_result(self)
    IN IF r = Panic THEN Panic
       ELSE IF IsErr(r) THEN Err(ErrorFromExecutionFailure(r.err))
       ELSE ExecutionSuccess_raw_bytes(r.val)

(***************************************************************************)
(* Execution<T>: a value of type T together with the final result of the   *)
(* transaction that produced it.                                           *)
(***************************************************************************)
\* into_result() handing the wrapped result out without looking at details
Execution_into_result_unchecked(self) ==
    IF self.details.status.tag \in {"SuccessValue", "Failure"}
    THEN Ok(self.result) ELSE Panic

Execution_into_result(self) ==
    LET r == ExecutionFinalResult_into_result(self.details)
    IN IF r = Panic THEN Panic
       ELSE IF IsErr(r) THEN Err(r.err)
       ELSE Ok(self.result)

Execution_is_success(self) == ExecutionFinalResult_is_success(self.details)

Execution_is_failure(self) == ExecutionFinalResult_is_failure(self.details)

(***************************************************************************)
(* The views the RPC layer can deliver, within the bounds.  Each family    *)
(* varies one dimension of the input over all its values.                  *)
(***************************************************************************)
Bytes == {48, 49, 255}                     \* '0', '1' and a non-ASCII byte
Payloads == UNION {[1..n -> Bytes] : n \in 0..MaxLen}
TxErrors == {"AccountDoesNotExist", "FunctionCallError"}
GasValues == {GasZero, GasOne, GasHalf, GasMax}
LogChoices == {<<>>, <<"a">>, <<"a", "b">>}

OutcomeStatuses ==
    {SuccessValue(<<49>>), SuccessReceiptId(<<1>>), Failure("FunctionCallError"), Unknown}
TopStatuses ==
    {SuccessValue(<<>>), SuccessValue(<<49>>), NotStarted, Started}
    \cup {Failure(e) : e \in TxErrors}
TerminalStatuses == {SuccessValue(<<49>>), Failure("AccountDoesNotExist")}

OutcomeView(id, logs, gas, status) ==
    [id |-> <<id>>,
     block_hash |-> <<77>>,
     outcome |-> [logs |-> logs,
                  receipt_ids |-> <<<<id + 1>>>>,
                  gas_burnt |-> gas,
                  tokens_burnt |-> 0,
                  executor_id |-> "dev.test.near",
                  status |-> status]]

\* a view whose k-th outcome (the transaction first) is os[k]
View(status, os) ==
    [status |-> status,
     transaction_outcome |-> Head(os),
     receipts_outcome |-> Tail(os)]

PositionStatus(k) ==
    IF k = 1 THEN SuccessReceiptId(<<1>>)
    ELSE IF k % 3 = 2 THEN SuccessValue(<<49>>)
    ELSE IF k % 3 = 0 THEN Failure("FunctionCallError")
    ELSE Unknown

StatusViews ==
    UNION {{View(top, [k \in 1..n |-> OutcomeView(k - 1, <<ToString(k - 1)>>, GasOne, sts[k])]) :
               top \in TopStatuses, sts \in [1..n -> OutcomeStatuses]} :
           n \in 1..(MaxReceipts + 1)}

GasViews ==
    UNION {{View(top, [k \in 1..n |-> OutcomeView(k - 1, <<>>, gs[k], PositionStatus(k))]) :
               top \in TerminalStatuses, gs \in [1..n -> GasValues]} :
           n \in 1..(MaxReceipts + 1)}

LogViews ==
    UNION {{View(top, [k \in 1..n |-> OutcomeView(k - 1, ls[k], GasOne, PositionStatus(k))]) :
               top \in TerminalStatuses, ls \in [1..n -> LogChoices]} :
           n \in 1..(MaxReceipts + 1)}

PayloadViews ==
    {View(SuccessValue(p), <<OutcomeView(0, <<>>, GasOne, SuccessReceiptId(<<1>>)),
                             OutcomeView(1, <<"a">>, GasOne, SuccessValue(p))>>) :
        p \in Payloads}

\* the values an Execution<T> can wrap
WrappedResults == {"contract", "account"}

Views == StatusViews \cup GasViews \cup LogViews \cup PayloadViews

(***************************************************************************)
(* The caller: builds the final result from a view, then classifies or     *)
(* decodes it, or looks into one of its outcomes.                          *)
(***************************************************************************)
Init ==
    /\ view \in Views
    /\ final = NoValue
    /\ result = NoValue
    /\ oret = NoValue
    /\ ret = NoValue
    /\ pc = "view"

\* ExecutionFinalResult::from_view(view)
FromView ==
    /\ pc = "view"
    /\ \E overflow_checks \in BOOLEAN :
          /\ final' = from_view(view, overflow_checks)
          /\ pc' = IF final' = Panic THEN "panicked" ELSE "final"
    /\ UNCHANGED <<view, result, oret, ret>>

\* final.into_result(); `final` keeps the value that was moved into the call
IntoResult ==
    /\ pc = "final"
    /\ result' = ExecutionFinalResult_into_result(final)
    /\ pc' = IF result' = Panic THEN "panicked" ELSE "classified"
    /\ UNCHANGED <<view, final, oret, ret>>

Decoded(op, r) ==
    /\ ret' = [op |-> op, val |-> r]
    /\ pc' = IF r = Panic THEN "panicked" ELSE "decoded"
    /\ UNCHANGED <<view, final, result, oret>>

\* final.json::<T>(), final.borsh::<T>(), final.raw_bytes()
Json == pc = "final" /\ Decoded("json", ExecutionFinalResult_json(final))

Borsh == pc = "final" /\ Decoded("borsh", ExecutionFinalResult_borsh(final))

RawBytes == pc = "final" /\ Decoded("raw_bytes", ExecutionFinalResult_raw_bytes(final))

\* success.json::<T>(), success.borsh::<T>(), success.raw_bytes() on the
\* ExecutionSuccess returned by into_result
SuccessDecoded(op, r) ==
    /\ pc = "classified"
    /\ IsOk(result)
    /\ ret' = [op |-> op, val |-> r]
    /\ UNCHANGED <<view, final, result, oret, pc>>

SuccessJson == SuccessDecoded("success.json", ExecutionSuccess_json(result.val))

SuccessBorsh == SuccessDecoded("success.borsh", ExecutionSuccess_borsh(result.val))

SuccessRawBytes == SuccessDecoded("success.raw_bytes", ExecutionSuccess_raw_bytes(result.val))

\* final.outcomes()[k].clone().into_result()
OutcomeIntoResult ==
    /\ pc = "final"
    /\ \E k \in DOMAIN ExecutionDetails_outcomes(final.details) :
          oret' = [k |-> k,
                   val |-> ExecutionOutcome_into_result(ExecutionDetails_outcomes(final.details)[k])]
    /\ pc' = "outcome"
    /\ UNCHANGED <<view, final, result, ret>>

\* value.json::<T>(), value.borsh::<T>(), value.raw_bytes() on the Value
\* of a successful outcome
ValueDecoded(op, r) ==
    /\ pc = "outcome"
    /\ IsOk(oret.val)
    /\ oret.val.val.tag = "Value"
    /\ ret' = [op |-> op, val |-> r]
    /\ UNCHANGED <<view, final, result, oret, pc>>

ValueJson == ValueDecoded("value.json", Value_json(oret.val.val.value))

ValueBorsh == ValueDecoded("value.borsh", Value_borsh(oret.val.val.value))

ValueRawBytes == ValueDecoded("value.raw_bytes", Value_raw_bytes(oret.val.val.value))

\* Execution { result, details: final }.into_result()
ExecutionIntoResult ==
    /\ pc = "final"
    /\ \E t \in WrappedResults :
          LET self == [result |-> t, details |-> final]
          IN /\ ret' = [op |-> "execution.into_result", self |-> self,
                        val |-> Execution_into_result(self)]
             /\ pc' = IF Execution_into_result(self) = Panic THEN "panicked" ELSE "decoded"
    /\ UNCHANGED <<view, final, result, oret>>

Next ==
    \/ FromView
    \/ IntoResult
    \/ Json
    \/ Borsh
    \/ RawBytes
    \/ SuccessJson
    \/ SuccessBorsh
    \/ SuccessRawBytes
    \/ OutcomeIntoResult
    \/ ValueJson
    \/ ValueBorsh
    \/ ValueRawBytes
    \/ ExecutionIntoResult

Spec == Init /\ [][Next]_vars

(***************************************************************************)
(* Properties                                                              *)
(***************************************************************************)
IsFinal == final # NoValue /\ final # Panic
IsClassified == result # NoValue /\ result # Panic
Pending == IsFinal /\ final.status.tag \in {"NotStarted", "Started"}
FinalDecode == ret # NoValue /\ ret.op \in {"json", "borsh", "raw_bytes"}

\* C1: into_result returns Ok exactly when the top-level status is
\* SuccessValue and Err exactly when it is Failure, whatever the statuses of
\* the transaction and receipt outcomes.
C1_TopLevelStatusDecides ==
    result # NoValue =>
        /\ IsOk(result) <=> final.status.tag = "SuccessValue"
        /\ IsErr(result) <=> final.status.tag = "Failure"

\* a failing receipt under a top-level SuccessValue, classified Ok
C1_Witness ==
    /\ result # NoValue
    /\ IsOk(result)
    /\ \E i \in DOMAIN final.details.receipts :
          final.details.receipts[i].status.tag = "Failure"

\* C2: the ExecutionSuccess or ExecutionFailure returned by into_result has
\* the total_gas_burnt of the final result and answers outcome(), outcomes(),
\* receipt_outcomes(), failures(), receipt_failures() and logs() as the final
\* result did.
C2_DiagnosticsPreserved ==
    IsClassified =>
        LET r == IF IsOk(result) THEN result.val ELSE result.err
        IN /\ r.total_gas_burnt = final.total_gas_burnt
           /\ ExecutionDetails_outcome(r.details) = ExecutionDetails_outcome(final.details)
           /\ ExecutionDetails_outcomes(r.details) = ExecutionDetails_outcomes(final.details)
           /\ ExecutionDetails_receipt_outcomes(r.details)
                 = ExecutionDetails_receipt_outcomes(final.details)
           /\ ExecutionDetails_failures(r.details) = ExecutionDetails_failures(final.details)
           /\ ExecutionDetails_receipt_failures(r.details)
                 = ExecutionDetails_receipt_failures(final.details)
           /\ ExecutionDetails_logs(r.details) = ExecutionDetails_logs(final.details)

\* a failure whose aggregate has a succeeding receipt, a failing one and logs
C2_Witness ==
    /\ IsClassified
    /\ IsErr(result)
    /\ ExecutionDetails_receipt_failures(result.err.details) # <<>>
    /\ Len(ExecutionDetails_receipt_failures(result.err.details))
          < Len(ExecutionDetails_receipt_outcomes(result.err.details))
    /\ ExecutionDetails_logs(result.err.details) # <<>>

\* C3: with a pending top-level status (NotStarted or Started), into_result,
\* json, borsh and raw_bytes return an error value; none aborts and none
\* returns a success.
C3_PendingIsAnError ==
    Pending =>
        /\ pc # "panicked"
        /\ result # NoValue => IsErr(result)
        /\ FinalDecode => IsErr(ret.val) /\ ret.val.err.repr = "Message"

\* C4: failures() is outcomes() filtered by is_failure(), receipt_failures()
\* is receipt_outcomes() filtered by is_failure(), in order, and a failed
\* transaction outcome is the first element of failures().
C4_FailuresFilterByIsFailure ==
    IsFinal =>
        LET d == final.details
        IN /\ ExecutionDetails_failures(d)
                 = SelectSeq(ExecutionDetails_outcomes(d), ExecutionOutcome_is_failure)
           /\ ExecutionDetails_receipt_failures(d)
                 = SelectSeq(ExecutionDetails_receipt_outcomes(d), ExecutionOutcome_is_failure)
           /\ ExecutionOutcome_is_failure(d.transaction) =>
                 /\ ExecutionDetails_failures(d) # <<>>
                 /\ ExecutionDetails_failures(d)[1] = d.transaction

\* C5: with a top-level Failure(e), json, borsh and raw_bytes each return an
\* Err of kind Execution that carries e, whatever the outcomes contain.
C5_FailedDecodeSurfacesError ==
    (FinalDecode /\ final.status.tag = "Failure") =>
        /\ IsErr(ret.val)
        /\ ret.val.err.kind = "Execution"
        /\ ret.val.err.error.value = final.status.err

\* json() of a failed execution whose transaction outcome carries a value
C5_Witness ==
    /\ FinalDecode
    /\ ret.op = "json"
    /\ final.status.tag = "Failure"
    /\ final.details.transaction.status.tag = "SuccessValue"
    /\ IsErr(ret.val)

\* C6: with an empty success payload, JSON decoding fails with the "empty
\* value" DataConversion error on every path: json() on the final result,
\* json() on the ExecutionSuccess from into_result, json() on the raw Value.
C6_EmptyJsonIsDistinguished ==
    (/\ IsFinal
     /\ final.status = SuccessValue(<<>>)
     /\ ret # NoValue
     /\ \/ ret.op \in {"json", "success.json"}
        \/ ret.op = "value.json" /\ oret.val.val.value.repr = <<>>)
    => ret.val = Err(Custom("DataConversion", EmptyValueMsg))

\* the gas_burnt of every outcome of the view, as an unbounded integer kept
\* in five limbs: column sums, then carry propagation
RECURSIVE ColumnSum(_, _, _)
ColumnSum(gs, j, i) ==
    IF i > Len(gs) THEN 0 ELSE gs[i][j] + ColumnSum(gs, j, i + 1)

ExactGasSum(v) ==
    LET gs == <<v.transaction_outcome.outcome.gas_burnt>>
              \o [i \in DOMAIN v.receipts_outcome |-> v.receipts_outcome[i].outcome.gas_burnt]
        c1 == ColumnSum(gs, 1, 1)
        c2 == ColumnSum(gs, 2, 1) + (c1 \div LimbBase)
        c3 == ColumnSum(gs, 3, 1) + (c2 \div LimbBase)
        c4 == ColumnSum(gs, 4, 1) + (c3 \div LimbBase)
    IN <<c1 % LimbBase, c2 % LimbBase, c3 % LimbBase, c4 % LimbBase, c4 \div LimbBase>>

\* C7: total_gas_burnt of a result built by from_view is the exact integer
\* sum of the gas_burnt of the transaction outcome and of every receipt
\* outcome, for any u64 gas values.
C7_TotalGasIsExactSum ==
    pc # "view" =>
        /\ final # Panic
        /\ final.total_gas_burnt \o <<0>> = ExactGasSum(view)

\* C8: a Value built from a success status carrying payload P, by
\* ExecutionFinalResult::into_result or by ExecutionOutcome::into_result,
\* returns Ok(P) from raw_bytes().
C8_RawBytesRoundTrip ==
    /\ (IsClassified /\ IsOk(result)) =>
          Value_raw_bytes(result.val.value) = Ok(final.status.value)
    /\ (ret # NoValue /\ ret.op \in {"raw_bytes", "success.raw_bytes"}
           /\ final.status.tag = "SuccessValue") =>
          ret.val = Ok(final.status.value)
    /\ (ret # NoValue /\ ret.op = "value.raw_bytes") =>
          ret.val = Ok(ExecutionDetails_outcomes(final.details)[oret.k].status.value)

\* raw_bytes() of an outcome's Value whose payload ends in a partial group
C8_Witness ==
    /\ ret # NoValue
    /\ ret.op = "value.raw_bytes"
    /\ IsOk(ret.val)
    /\ Len(ret.val.val) = 2
    /\ ret.val.val[2] = 255

\* C9: outcomes() is the transaction outcome followed by the receipt outcomes
\* in the order of the view.
C9_OutcomesOrder ==
    IsFinal =>
        LET os == ExecutionDetails_outcomes(final.details)
        IN /\ Len(os) = 1 + Len(ExecutionDetails_receipt_outcomes(final.details))
           /\ os[1] = ExecutionOutcome_from(view.transaction_outcome)
           /\ os[1] = ExecutionDetails_outcome(final.details)
           /\ \A i \in DOMAIN view.receipts_outcome :
                 /\ os[i + 1] = ExecutionOutcome_from(view.receipts_outcome[i])
                 /\ os[i + 1].transaction_hash = CryptoHash(view.receipts_outcome[i].id[1])

\* an aggregate of a transaction and two receipts with different statuses
C9_Witness ==
    /\ IsFinal
    /\ Len(view.receipts_outcome) >= 2
    /\ view.receipts_outcome[1].outcome.status # view.receipts_outcome[2].outcome.status
    /\ Len(ExecutionDetails_outcomes(final.details)) >= 3

\* C10: with a top-level Failure(e), is_failure() is true, is_success() is
\* false and into_result() returns Err carrying exactly e; for both terminal
\* statuses the classification yields the payload or e, never a
\* DataConversion error, and is_success() holds exactly when into_result()
\* returns Ok.
C10_FailureClassification ==
    /\ (IsFinal /\ final.status.tag = "Failure") =>
          /\ ExecutionFinalResult_is_failure(final)
          /\ ~ExecutionFinalResult_is_success(final)
          /\ result # NoValue => IsErr(result) /\ result.err.value = final.status.err
    /\ IsClassified =>
          /\ ExecutionFinalResult_is_success(final) <=> IsOk(result)
          /\ ExecutionFinalResult_is_failure(final) <=> IsErr(result)
          /\ IsErr(result) => result.err.value \in TxErrors

\* a failed execution with a receipt that failed with another error
C10_Witness ==
    /\ IsClassified
    /\ IsErr(result)
    /\ result.err.value = "AccountDoesNotExist"
    /\ ExecutionDetails_failures(final.details) # <<>>

\* the number of log lines of the first k outcomes
RECURSIVE LogCount(_, _)
LogCount(os, k) == IF k = 0 THEN 0 ELSE Len(os[k].logs) + LogCount(os, k - 1)

\* C11: logs() is the concatenation, in outcomes() order, of each outcome's
\* log lines in their own order: line j of outcome k sits right after all the
\* lines of the outcomes before k, whatever the status of outcome k, and the
\* length of logs() is the sum of the log counts of all outcomes.
C11_LogsConcatenation ==
    IsFinal =>
        LET os == ExecutionDetails_outcomes(final.details)
            ls == ExecutionDetails_logs(final.details)
        IN /\ Len(ls) = LogCount(os, Len(os))
           /\ \A k \in DOMAIN os : \A j \in DOMAIN os[k].logs :
                 ls[LogCount(os, k - 1) + j] = os[k].logs[j]

\* a failed receipt with two log lines after a transaction that logged
C11_Witness ==
    /\ IsFinal
    /\ final.details.transaction.logs # <<>>
    /\ \E i \in DOMAIN final.details.receipts :
          /\ final.details.receipts[i].status.tag = "Failure"
          /\ Len(final.details.receipts[i].logs) = 2
    /\ Len(ExecutionDetails_logs(final.details)) >= 3

\* C12: for every outcome exactly one of is_success() and is_failure() is
\* true: is_success() exactly for SuccessValue and SuccessReceiptId,
\* is_failure() exactly for Failure and Unknown.
C12_SuccessXorFailure ==
    IsFinal =>
        \A k \in DOMAIN ExecutionDetails_outcomes(final.details) :
            LET o == ExecutionDetails_outcomes(final.details)[k]
            IN /\ ExecutionOutcome_is_success(o) # ExecutionOutcome_is_failure(o)
               /\ ExecutionOutcome_is_success(o)
                     <=> o.status.tag \in {"SuccessValue", "SuccessReceiptId"}
               /\ ExecutionOutcome_is_failure(o) <=> o.status.tag \in {"Failure", "Unknown"}

\* an aggregate holding an unknown outcome next to a successful one
C12_Witness ==
    /\ IsFinal
    /\ \E k \in DOMAIN ExecutionDetails_outcomes(final.details) :
          /\ ExecutionDetails_outcomes(final.details)[k].status = Unknown
          /\ ExecutionOutcome_is_failure(ExecutionDetails_outcomes(final.details)[k])
    /\ \E k \in DOMAIN ExecutionDetails_outcomes(final.details) :
          ExecutionOutcome_is_success(ExecutionDetails_outcomes(final.details)[k])

\* C13: ExecutionOutcome::into_result returns Ok exactly when is_success()
\* held for the outcome: SuccessValue(P) gives a Value whose raw bytes are P,
\* SuccessReceiptId(h) gives the receipt id h, Failure(e) gives an Execution
\* error carrying e, Unknown gives an Execution message error.
C13_OutcomeIntoResult ==
    oret # NoValue =>
        LET o == ExecutionDetails_outcomes(final.details)[oret.k]
            r == oret.val
        IN /\ IsOk(r) <=> ExecutionOutcome_is_success(o)
           /\ IsErr(r) <=> ExecutionOutcome_is_failure(o)
           /\ o.status.tag = "SuccessValue" =>
                 /\ IsOk(r)
                 /\ r.val.tag = "Value"
                 /\ Value_raw_bytes(r.val.value) = Ok(o.status.value)
           /\ o.status.tag = "SuccessReceiptId" =>
                 /\ IsOk(r)
                 /\ r.val.tag = "ReceiptId"
                 /\ r.val.hash[1] = o.status.hash[1]
           /\ o.status.tag = "Failure" =>
                 /\ IsErr(r)
                 /\ r.err.kind = "Execution"
                 /\ r.err.error = o.status.err
           /\ o.status.tag = "Unknown" =>
                 /\ IsErr(r)
                 /\ r.err.kind = "Execution"
                 /\ r.err.repr = "Message"

\* into_result() of an unknown receipt outcome, returning the message error
C13_Witness ==
    /\ oret # NoValue
    /\ oret.k > 1
    /\ ExecutionDetails_outcomes(final.details)[oret.k].status = Unknown
    /\ IsErr(oret.val)
    /\ oret.val.err.error = PendingMsg

\* C14: Execution::into_result returns Ok with the wrapped result unchanged
\* exactly when the top-level status of its details is SuccessValue, and Err
\* with an ExecutionFailure carrying the error, aggregate and total_gas_burnt
\* of the details when it is Failure; is_success() and is_failure() of the
\* Execution agree with that outcome.
C14_ExecutionIntoResult ==
    (ret # NoValue /\ ret.op = "execution.into_result") =>
        LET self == ret.self
            r == ret.val
        IN /\ IsOk(r) <=> self.details.status.tag = "SuccessValue"
           /\ IsErr(r) <=> self.details.status.tag = "Failure"
           /\ IsOk(r) => r.val = self.result
           /\ IsErr(r) =>
                 /\ r.err.value = self.details.status.err
                 /\ r.err.details = self.details.details
                 /\ r.err.total_gas_burnt = self.details.total_gas_burnt
           /\ Execution_is_success(self) <=> IsOk(r)
           /\ Execution_is_failure(self) <=> IsErr(r)

\* a failed execution with receipts, whose wrapped result is withheld
C14_Witness ==
    /\ ret # NoValue
    /\ ret.op = "execution.into_result"
    /\ ret.self.result = "contract"
    /\ ret.self.details.status.tag = "Failure"
    /\ ret.self.details.details.receipts # <<>>
    /\ IsErr(ret.val)

====
